---- MODULE Spec2Model ----
(***************************************************************************)
(* Model of the mpas bootstrap installer (package bootstrap):              *)
(*   - getComponentVersion : semantic-version constraint resolution        *)
(*   - getResources        : classification of a component version's       *)
(*                           resources                                     *)
(*   - buildKustomization  : descriptor write + kustomize build under mu    *)
(*   - reconcileComponents : clone / commit / push / apply                 *)
(*   - fluxInstall.Install : the whole installation run                    *)
(* Calls into libraries (ocm, semver, gogit, kustomize, flux, kube) are    *)
(* steps whose outcome is chosen among the results the call can return.    *)
(***************************************************************************)
EXTENDS Integers, Sequences, FiniteSets, TLC

\* ------------------------------------------------------------------ bounds
\* longest version listing returned by ListVersions
MaxVersions == 3
\* number of reconcileComponents calls made on one working copy
MaxReconcile == 2
\* number of buildKustomization calls each concurrent caller makes
MaxBuilds == 2

\* ------------------------------------------------------------- error values
\* error values are sets of failure tags: {} is nil, fmt.Errorf("%w") keeps
\* the tags of the wrapped error, errors.Join is set union.
Nil == {}

Join(e1, e2) == e1 \cup e2

VARIABLES
    pc,          \* position of the sequential run (Install / reconcileComponents)
    err,         \* error returned by the run that ended last (Nil = success)
    log,         \* sequence of the external calls made so far, in order
    vnames,      \* version listing of the component in the repository
    constraint,  \* f.version, the constraint string
    ver,         \* getComponentVersion: the selected version name 
    lookedUp,    \* version name passed to LookupVersion 
    bundle,      \* resources of the looked-up component version
    ri,          \* getResources: index of the resource being classified
    res,         \* getResources: the resources struct being filled
    kus,         \* the kustomization descriptor held by Install
    kconfig,     \* the decoded localization rules (resource names)
    bpc,         \* buildKustomization: position of each caller
    bkus,        \* buildKustomization: descriptor argument of each caller
    bcalls,      \* buildKustomization: number of calls each caller has made
    mu,          \* holder of f.mu (0 = unlocked)
    bread,       \* descriptor that the kustomize build of each caller read
    bout,        \* value returned by each caller's buildKustomization
    berr,        \* error returned by each caller's buildKustomization
    repoOpen,    \* gitClient holds an opened repository
    wt,          \* files of the working directory (gitClient.Path())
    residue,     \* directory holds entries left by a partial clone
    head,        \* tree of the local HEAD commit
    remote,      \* tree of the remote branch
    rcontent,    \* content argument of the running reconcileComponents call
    given,       \* content arguments of the reconcileComponents calls so far
    i,           \* retry: loop counter
    healthErr,   \* Install: the joined errors of the health checks
    ctxDone,     \* the context handed to the run has been cancelled
    refs,        \* Bootstrap.Run: the component references, as declared
    visited,     \* Bootstrap.Run: the keys of refs the loop has taken so far
    dirs         \* Bootstrap.Run: the temporary directories created, in order:
                 \* "obtained" (returned to Run), "leaked" (created, not
                 \* returned), "removed", "failed" (os.RemoveAll failed)

vars == << pc, err, log, vnames, constraint, ver, lookedUp, bundle, ri, res, kus,
           kconfig, bpc, bkus, bcalls, mu, bread, bout, berr,
           repoOpen, wt, residue, head, remote, rcontent, given, i, healthErr,
           ctxDone, refs, visited, dirs >>

resolveVars == << vnames, constraint, ver, lookedUp >>
extractVars == << bundle, ri, res >>
genVars     == << kus, kconfig >>
buildVars   == << bpc, bkus, bcalls, mu, bread, bout, berr >>
gitVars     == << repoOpen, wt, residue, head, remote >>
recVars     == << rcontent, given, i >>
callerVars  == << ctxDone, refs, visited, dirs >>

\* an entry of log: the call made and its result ("nil", "err", or the name
\* of the distinguished result)
Ev(op, r) == [op |-> op, r |-> r]

\* ------------------------------------------------------------ small helpers
\* the positions of the calls of op in a log, and their number
Positions(s, op) == { k \in 1..Len(s) : s[k].op = op }

Calls(s, op) == Cardinality(Positions(s, op))

SeqsUpTo(S, n) == UNION { [1..k -> S] : k \in 0..n }

Last(s) == s[Len(s)]

\* ===================================================== semantic versions
\* A version name is the string stored in the repository.  It is modelled by
\* its lexical structure: an optional "v" prefix and the dot-separated
\* numeric fields.  semver.NewVersion accepts one to three fields and pads
\* the missing ones with 0; Original() gives back the string it was parsed
\* from, String() the canonical form without the prefix.
VName(prefix, parts) == [prefix |-> prefix, parts |-> parts]

\* the value of the variables that hold a version name before one is set
NoVersion == VName(FALSE, << >>)

\* semver.NewVersion: the error result
NewVersionFails(vname) == Len(vname.parts) = 0 \/ Len(vname.parts) > 3

\* semver.NewVersion: the parsed version
NewVersion(vname) ==
    [ major    |-> vname.parts[1],
      minor    |-> IF Len(vname.parts) >= 2 THEN vname.parts[2] ELSE 0,
      patch    |-> IF Len(vname.parts) >= 3 THEN vname.parts[3] ELSE 0,
      original |-> vname ]

\* (*Version).Original
Original(v) == v.original

\* (*Version).String : canonical form, three fields, no prefix
String(v) == VName(FALSE, << v.major, v.minor, v.patch >>)

\* A constraint string is modelled by its operator and its fields, X standing
\* for the wildcard ("x" or "*"); a constraint with no field does not parse.
X == -1

Constraint(op, parts) == [op |-> op, parts |-> parts]

NewConstraintFails(c) == Len(c.parts) = 0 \/ Len(c.parts) > 3 \/ c.op \notin {"=", ">=", "<"}

Field(c, k) == IF Len(c.parts) >= k THEN c.parts[k] ELSE X

Floor(c, k) == IF Field(c, k) = X THEN 0 ELSE Field(c, k)

Less(a, b) ==
    \/ a[1] < b[1]
    \/ a[1] = b[1] /\ a[2] < b[2]
    \/ a[1] = b[1] /\ a[2] = b[2] /\ a[3] < b[3]

Triple(v) == << v.major, v.minor, v.patch >>

\* (*Constraints).Check
Check(c, v) ==
    CASE c.op = "="  -> /\ Field(c, 1) \in {X, v.major}
                        /\ Field(c, 1) = X \/ Field(c, 2) \in {X, v.minor}
                        /\ Field(c, 1) = X \/ Field(c, 2) = X \/ Field(c, 3) \in {X, v.patch}
      [] c.op = ">=" -> ~Less(Triple(v), << Floor(c, 1), Floor(c, 2), Floor(c, 3) >>)
      [] c.op = "<"  -> Less(Triple(v), << Floor(c, 1), Floor(c, 2), Floor(c, 3) >>)
      [] OTHER       -> FALSE

v010 == VName(TRUE, << 0, 1, 0 >>)
v011 == VName(TRUE, << 0, 1, 1 >>)
v020 == VName(TRUE, << 0, 2, 0 >>)
n02  == VName(FALSE, << 0, 2 >>)
vBad == VName(TRUE, << 1, 0, 0, 0 >>)

\* version names a repository may list / the constraints a caller may pass
VersionNames == { v010, v011, v020, n02, vBad }

Constraints ==
    { Constraint("=", << 0, 1, X >>),     \* "v0.1.x"
      Constraint("=", << 0, 2, 0 >>),     \* "0.2.0"
      Constraint(">=", << 0, 1, 1 >>),    \* ">=0.1.1"
      Constraint("<", << 0, 1 >>),        \* "<0.1"
      Constraint("=", << X >>),           \* "*"
      Constraint("=", << >>) }            \* does not parse

\* the loop of getComponentVersion without the break: the last satisfying
\* version wins
RECURSIVE selectVersionNoBreak(_, _)
selectVersionNoBreak(c, names) ==
    IF names = << >> THEN [err |-> Nil, found |-> FALSE, ver |-> NoVersion]
    ELSE IF NewVersionFails(Head(names))
         THEN [err |-> {"NewVersion"}, found |-> FALSE, ver |-> NoVersion]
    ELSE LET r == selectVersionNoBreak(c, Tail(names)) IN
         IF r.err # Nil \/ r.found \/ ~Check(c, NewVersion(Head(names))) THEN r
         ELSE [err |-> Nil, found |-> TRUE, ver |-> Original(NewVersion(Head(names)))]

\* the loop of getComponentVersion over the names not yet visited: the result
\* is [err, found, ver]: found is ver # nil, ver the name of the first version
\* that satisfies the constraint; a name that does not parse ends the loop
\* with an error.
RECURSIVE selectVersion(_, _)
selectVersion(c, names) ==
    IF names = << >> THEN [err |-> Nil, found |-> FALSE, ver |-> NoVersion]
    ELSE IF NewVersionFails(Head(names))
         THEN [err |-> {"NewVersion"}, found |-> FALSE, ver |-> NoVersion]
    ELSE IF Check(c, NewVersion(Head(names)))
         THEN [err |-> Nil, found |-> TRUE, ver |-> Original(NewVersion(Head(names)))]
         ELSE selectVersion(c, Tail(names))

\* ---------------------------------------------------- getComponentVersion
\* repository.LookupComponent(componentName)
LookupComponent ==
    /\ pc = "LookupComponent"
    /\ \/ /\ pc' = "ListVersions"
          /\ log' = Append(log, Ev("LookupComponent", "nil"))
          /\ UNCHANGED err
       \/ /\ pc' = "done"
          /\ log' = Append(log, Ev("LookupComponent", "err"))
          /\ err' = {"LookupComponent"}
    /\ UNCHANGED << resolveVars, extractVars, genVars, buildVars, gitVars, recVars, healthErr, callerVars >>

\* c.ListVersions()
ListVersions ==
    /\ pc = "ListVersions"
    /\ \/ /\ pc' = "NewConstraint"
          /\ log' = Append(log, Ev("ListVersions", "nil"))
          /\ UNCHANGED err
       \/ /\ pc' = "done"
          /\ log' = Append(log, Ev("ListVersions", "err"))
          /\ err' = {"ListVersions"}
    /\ UNCHANGED << resolveVars, extractVars, genVars, buildVars, gitVars, recVars, healthErr, callerVars >>

\* semver.NewConstraint(version), the loop over vnames and the nil test
SelectVersion ==
    /\ pc = "NewConstraint"
    /\ IF NewConstraintFails(constraint)
       THEN /\ pc' = "done"
            /\ err' = {"NewConstraint"}
            /\ UNCHANGED ver
       ELSE LET r == selectVersion(constraint, vnames) IN
            IF r.err # Nil
            THEN /\ pc' = "done"
                 /\ err' = r.err
                 /\ UNCHANGED ver
            ELSE IF ~r.found
            THEN /\ pc' = "done"
                 /\ err' = {"NoMatchingVersion"}
                 /\ UNCHANGED ver
            ELSE /\ pc' = "LookupVersion"
                 /\ ver' = r.ver
                 /\ UNCHANGED err
    /\ UNCHANGED << log, vnames, constraint, lookedUp, extractVars, genVars, buildVars,
                    gitVars, recVars, healthErr, callerVars >>

\* the argument of c.LookupVersion: ver.Original()
lookupArg(v) == Original(NewVersion(v))

\* c.LookupVersion(ver.Original())
LookupVersion ==
    /\ pc = "LookupVersion"
    /\ lookedUp' = lookupArg(ver)
    /\ \/ /\ pc' = "getResources"
          /\ log' = Append(log, Ev("LookupVersion", "nil"))
          /\ UNCHANGED err
       \/ /\ pc' = "done"
          /\ log' = Append(log, Ev("LookupVersion", "err"))
          /\ err' = {"LookupVersion"}
    /\ UNCHANGED << vnames, constraint, ver, extractVars, genVars, buildVars, gitVars,
                    recVars, healthErr, callerVars >>

\* ============================================================ getResources
\* Byte streams and file contents are sequences of tokens.  A nil []byte and
\* a missing file are tokens no content holds.
NilBytes == << "nil" >>

Absent == << "absent" >>

\* the component argument of Install
ComponentName == "flux"

Resource(name, type, access, data, ref) ==
    [name |-> name, type |-> type, access |-> access, data |-> data, ref |-> ref]

\* strings.Split(s, sep) on a string given as its sequence of characters
RECURSIVE Split(_, _)
Split(s, sep) ==
    IF \A k \in 1..Len(s) : s[k] # sep THEN << s >>
    ELSE LET k == CHOOSE k \in 1..Len(s) :
                      s[k] = sep /\ \A j \in 1..(k - 1) : s[j] # sep
         IN  << SubSeq(s, 1, k - 1) >> \o Split(SubSeq(s, k + 1, Len(s)), sep)

\* getResourceRef: accessOK is the outcome of resource.Access().  The type
\* assertion and the index [1] panic when the access specification is not an
\* OCI artifact or the reference holds no ":".
getResourceRef(resource, accessOK) ==
    IF ~accessOK THEN [panic |-> FALSE, name |-> << >>, version |-> << >>]
    ELSE IF resource.access # "ociArtifact"
         THEN [panic |-> TRUE, name |-> << >>, version |-> << >>]
    ELSE LET parts == Split(resource.ref, ":") IN
         IF Len(parts) < 2 THEN [panic |-> TRUE, name |-> << >>, version |-> << >>]
         ELSE [panic |-> FALSE, name |-> parts[1], version |-> parts[2]]

\* the results getResourceContent can have: the bytes, or the failure of
\* AccessMethod, Reader, AutoDecompress or ReadAll
ContentOutcomes == {"ok", "AccessMethod", "Reader", "AutoDecompress", "ReadAll"}

nameTag(name, tag) == [Name |-> name, Tag |-> tag]

EmptyMap == [x \in {} |-> x]

\* a map assignment that keeps the value a key already has
MapPutKeep(m, k, v) == [x \in DOMAIN m \cup {k} |-> IF x \in DOMAIN m THEN m[x] ELSE v]

\* m[k] = v
MapPut(m, k, v) == [x \in DOMAIN m \cup {k} |-> IF x = k THEN v ELSE m[x]]

\* the local variables of getResources before the loop
NoResources ==
    [componentResource |-> NilBytes, ocmConfig |-> NilBytes,
     imagesResources |-> EmptyMap, compomentsList |-> << >>]

\* one iteration of the loop of getResources
getResourcesStep ==
    /\ pc = "getResources"
    /\ ri <= Len(bundle)
    /\ LET resource == bundle[ri] IN
       IF resource.name \in {ComponentName, "ocm-config"}
       THEN \E o \in ContentOutcomes :
              /\ log' = Append(log, Ev("getResourceContent", IF o = "ok" THEN "nil" ELSE "err"))
              /\ IF o = "ok"
                 THEN /\ res' = IF resource.name = ComponentName
                                THEN [res EXCEPT !.componentResource = resource.data]
                                ELSE [res EXCEPT !.ocmConfig = resource.data]
                      /\ ri' = ri + 1
                      /\ UNCHANGED << pc, err >>
                 ELSE /\ pc' = "done"
                      /\ err' = {o}
                      /\ UNCHANGED << ri, res >>
       ELSE IF resource.type = "ociImage"
       THEN \E accessOK \in BOOLEAN :
              LET r == getResourceRef(resource, accessOK) IN
              /\ log' = Append(log, Ev("Access", IF accessOK THEN "nil" ELSE "err"))
              /\ IF r.panic
                 THEN /\ pc' = "panic"
                      /\ UNCHANGED << ri, res, err >>
                 ELSE /\ res' = [res EXCEPT
                                   !.imagesResources =
                                       MapPut(@, resource.name, nameTag(r.name, r.version)),
                                   !.compomentsList = Append(@, resource.name)]
                      /\ ri' = ri + 1
                      /\ UNCHANGED << pc, err >>
       ELSE /\ ri' = ri + 1
            /\ UNCHANGED << pc, err, log, res >>
    /\ UNCHANGED << bundle, resolveVars, genVars, buildVars, gitVars, recVars, healthErr, callerVars >>

\* Install testing the component resource only
resourceMissingComponentOnly(r) == r.componentResource = NilBytes

\* the test Install makes on the resources that getResources returned
resourceMissing(r) == r.componentResource = NilBytes \/ r.ocmConfig = NilBytes

\* the return of getResources and the nil test of Install
getResourcesReturn ==
    /\ pc = "getResources"
    /\ ri > Len(bundle)
    /\ IF resourceMissing(res)
       THEN /\ pc' = "done"
            /\ err' = {"ResourceNotFound"}
       ELSE /\ pc' = "generateKustomization"
            /\ UNCHANGED err
    /\ UNCHANGED << log, extractVars, resolveVars, genVars, buildVars, gitVars, recVars,
                    healthErr, callerVars >>

\* ===================================================== manifest generation
\* the files of the working directory the model follows
Paths == {"gotk-components.yaml", "kustomization.yaml", "target", "target-kustomization"}

EmptyTree == [p \in Paths |-> Absent]

Kustomization(resources, images) == [resources |-> resources, images |-> images]

Image(name, newName, newTag) == [Name |-> name, NewName |-> newName, NewTag |-> newTag]

RECURSIVE marshalImages(_)
marshalImages(images) ==
    IF images = << >> THEN << >>
    ELSE << "name:" >> \o Head(images).Name \o << "newName:" >> \o Head(images).NewName
           \o << "newTag:" >> \o Head(images).NewTag \o marshalImages(Tail(images))

\* yaml.Marshal of a kustomization descriptor
Marshal(k) == << "resources:" >> \o k.resources \o << "images:" >> \o marshalImages(k.images)

unmarshalImage(chunk) ==
    LET a == Split(chunk, "newName:")
        b == Split(a[2], "newTag:")
    IN  Image(a[1], b[1], b[2])

\* yaml.Unmarshal of the bytes of a kustomization descriptor
Unmarshal(data) ==
    LET a == Split(Tail(data), "images:")
        chunks == Tail(Split(a[2], "name:"))
    IN  Kustomization(a[1], [k \in 1..Len(chunks) |-> unmarshalImage(chunks[k])])

\* the descriptor generateKustomizationFile writes for a resource file
baseKustomization(resource) == Kustomization(<< resource >>, << >>)

\* the results generateKustomization can have: success, or the failure of
\* one of the file operations of generateKustomization, genKus and
\* generateKustomizationFile
KustomizationOutcomes ==
    {"ok", "WriteManifest", "Create", "MarshalKfile", "WriteKfile", "ReadFile", "Unmarshal"}

\* generateKustomization(componentResource, ocmConfig)
generateKustomization ==
    /\ pc = "generateKustomization"
    /\ \E o \in KustomizationOutcomes :
         LET k0 == baseKustomization("./gotk-components.yaml")
             w1 == [wt EXCEPT !["gotk-components.yaml"] = res.componentResource]
         IN
         /\ wt' = CASE o = "WriteManifest" -> wt
                    [] o = "Create"        -> w1
                    [] o = "MarshalKfile"  -> [w1 EXCEPT !["kustomization.yaml"] = Absent]
                    [] o = "WriteKfile"    -> [w1 EXCEPT !["kustomization.yaml"] = << >>]
                    [] OTHER               -> [w1 EXCEPT !["kustomization.yaml"] = Marshal(k0)]
         /\ log' = Append(log, Ev("generateKustomization", IF o = "ok" THEN "nil" ELSE "err"))
         /\ IF o = "ok"
            THEN /\ kus' = Unmarshal(wt'["kustomization.yaml"])
                 /\ pc' = "unMarshallConfig"
                 /\ UNCHANGED err
            ELSE /\ pc' = "done"
                 /\ err' = {o}
                 /\ UNCHANGED kus
    /\ UNCHANGED << kconfig, repoOpen, residue, head, remote, resolveVars, extractVars,
                    buildVars, recVars, healthErr, callerVars >>

\* the decoder of unMarshallConfig: a configuration document is the token
\* "localization:" followed by the resource names of its rules
decodeFails(data) == data = << >> \/ Head(data) # "localization:"

decode(data) == Tail(data)

\* unMarshallConfig(resources.ocmConfig)
unMarshallConfig ==
    /\ pc = "unMarshallConfig"
    /\ IF decodeFails(res.ocmConfig)
       THEN /\ pc' = "done"
            /\ err' = {"Decode"}
            /\ UNCHANGED kconfig
       ELSE /\ pc' = "generateGOTKComponent"
            /\ kconfig' = decode(res.ocmConfig)
            /\ UNCHANGED err
    /\ UNCHANGED << log, kus, resolveVars, extractVars, buildVars, gitVars, recVars,
                    healthErr, callerVars >>

\* env.DefaultFluxHost
DefaultFluxHost == "ghcr.io/fluxcd"

\* imagesResources[name]: the zero nameTag when the map has no such key
lookupImage(imagesResources, name) ==
    IF name \in DOMAIN imagesResources THEN imagesResources[name]
    ELSE nameTag(<< >>, << >>)

\* generateGOTKComponent leaving out the rules whose resource has no image
RECURSIVE appendImagesSkip(_, _, _)
appendImagesSkip(images, rules, imagesResources) ==
    IF rules = << >> THEN images
    ELSE IF Head(rules) \notin DOMAIN imagesResources
         THEN appendImagesSkip(images, Tail(rules), imagesResources)
    ELSE LET image == imagesResources[Head(rules)] IN
         appendImagesSkip(Append(images, Image(<< DefaultFluxHost, "/", Head(rules) >>,
                                                image.Name, image.Tag)),
                          Tail(rules), imagesResources)

\* the loop of generateGOTKComponent: one image override per rule
RECURSIVE appendImages(_, _, _)
appendImages(images, rules, imagesResources) ==
    IF rules = << >> THEN images
    ELSE LET image == lookupImage(imagesResources, Head(rules)) IN
         appendImages(Append(images, Image(<< DefaultFluxHost, "/", Head(rules) >>,
                                            image.Name, image.Tag)),
                      Tail(rules), imagesResources)

\* the callers of buildKustomization that share the directory and f.mu
Procs == {1, 2}

\* generateGOTKComponent up to the call of buildKustomization
generateGOTKComponent ==
    /\ pc = "generateGOTKComponent"
    /\ kus' = [kus EXCEPT !.images = appendImages(@, kconfig, res.imagesResources)]
    /\ bkus' = [bkus EXCEPT ![1] = kus']
    /\ bpc' = [bpc EXCEPT ![1] = "WriteFile"]
    /\ bcalls' = [bcalls EXCEPT ![1] = @ + 1]
    /\ pc' = "buildKustomization"
    /\ UNCHANGED << err, log, kconfig, mu, bread, bout, berr, resolveVars, extractVars,
                    gitVars, recVars, healthErr, callerVars >>

\* ------------------------------------------------------ buildKustomization
\* kustomize.Build followed by AsYaml: the rendered bytes for a manifest file
\* and a descriptor
Render(manifest, descriptor) == manifest \o descriptor

\* yaml.Marshal(kus) and os.WriteFile(kfile, manifest): made before mu is taken
BWrite(p) ==
    /\ bpc[p] = "WriteFile"
    /\ \E o \in {"ok", "Marshal", "WriteFile"} :
         /\ wt' = CASE o = "ok"      -> [wt EXCEPT !["kustomization.yaml"] = Marshal(bkus[p])]
                    [] o = "Marshal" -> wt
                    [] OTHER         -> [wt EXCEPT !["kustomization.yaml"] = << >>]
         /\ IF o = "ok"
            THEN /\ bpc' = [bpc EXCEPT ![p] = "Lock"]
                 /\ UNCHANGED << bout, berr >>
            ELSE /\ bpc' = [bpc EXCEPT ![p] = "returned"]
                 /\ bout' = [bout EXCEPT ![p] = NilBytes]
                 /\ berr' = [berr EXCEPT ![p] = {o}]
    /\ UNCHANGED << pc, err, log, bkus, bcalls, mu, bread, repoOpen, residue, head, remote,
                    resolveVars, extractVars, genVars, recVars, healthErr, callerVars >>

\* mu.Lock()
BLock(p) ==
    /\ bpc[p] = "Lock"
    /\ mu = 0
    /\ mu' = p
    /\ bpc' = [bpc EXCEPT ![p] = "Build"]
    /\ UNCHANGED << pc, err, log, bkus, bcalls, bread, bout, berr, resolveVars, extractVars,
                    genVars, gitVars, recVars, healthErr, callerVars >>

\* kustomize.Build(fs, dir) and m.AsYaml(): the build reads the descriptor and
\* the manifest that are in the directory at that moment
BBuild(p) ==
    /\ bpc[p] = "Build"
    /\ bread' = [bread EXCEPT ![p] = wt["kustomization.yaml"]]
    /\ \E o \in {"ok", "Build", "AsYaml"} :
         IF o = "ok" /\ wt["gotk-components.yaml"] # Absent /\ wt["kustomization.yaml"] # Absent
         THEN /\ bout' = [bout EXCEPT ![p] =
                              Render(wt["gotk-components.yaml"], wt["kustomization.yaml"])]
              /\ berr' = [berr EXCEPT ![p] = Nil]
         ELSE /\ bout' = [bout EXCEPT ![p] = NilBytes]
              /\ berr' = [berr EXCEPT ![p] = {IF o = "ok" THEN "Build" ELSE o}]
    /\ bpc' = [bpc EXCEPT ![p] = "Unlock"]
    /\ UNCHANGED << pc, err, log, bkus, bcalls, mu, resolveVars, extractVars, genVars,
                    gitVars, recVars, healthErr, callerVars >>

\* buildKustomization unlocking only on the path that returns the manifest
BUnlockOnSuccess(p) ==
    /\ bpc[p] = "Unlock"
    /\ mu' = IF berr[p] = Nil THEN 0 ELSE mu
    /\ bpc' = [bpc EXCEPT ![p] = "returned"]
    /\ UNCHANGED << pc, err, log, bkus, bcalls, bread, bout, berr, resolveVars, extractVars,
                    genVars, gitVars, recVars, healthErr, callerVars >>

\* the deferred mu.Unlock() and the return
BUnlock(p) ==
    /\ bpc[p] = "Unlock"
    /\ mu' = 0
    /\ bpc' = [bpc EXCEPT ![p] = "returned"]
    /\ UNCHANGED << pc, err, log, bkus, bcalls, bread, bout, berr, resolveVars, extractVars,
                    genVars, gitVars, recVars, healthErr, callerVars >>

\* ====================================================== reconcileComponents
\* the retries argument that cloneRepository passes to retry
Retries == 1

\* retry ending the loop one iteration late
retryBreakLate(n) == n > Retries

\* retry giving up after the first failed attempt
retryBreakAlways(n) == TRUE

\* retry: the test  i >= retries  that ends the loop after a failed attempt
retryBreak(n) == n >= Retries

\* retry after fn returned the error e: give up, or sleep and call fn again
RetryFailed(e, ev) ==
    IF retryBreak(i)
    THEN /\ pc' = "reconciled"
         /\ err' = e
         /\ log' = log \o << ev, Ev("return", "err") >>
    ELSE /\ pc' = "Sleep"
         /\ log' = Append(log, ev)
         /\ UNCHANGED err

\* cloneRepository cloning after any Head error
headNextAnyError(e) ==
    CASE e = "nil" -> "Commit"
      [] OTHER     -> "cleanGitRepoDir"

\* cloneRepository: what follows a Head that returned error e ("nil",
\* "ErrNoGitRepository" or "err")
headNext(e) ==
    CASE e = "nil"                -> "Commit"
      [] e = "ErrNoGitRepository" -> "cleanGitRepoDir"
      [] OTHER                    -> "return"

\* cloneRepository: the probe f.gitClient.Head().  A client without an opened
\* repository answers ErrNoGitRepository.
gitHead ==
    /\ pc = "Head"
    /\ \E e \in (IF repoOpen THEN {"nil", "err"} ELSE {"ErrNoGitRepository"}) :
         IF headNext(e) = "return"
         THEN /\ pc' = "reconciled"
              /\ err' = {"Head"}
              /\ log' = log \o << Ev("Head", e), Ev("return", "err") >>
              /\ UNCHANGED i
         ELSE /\ pc' = headNext(e)
              /\ i' = IF headNext(e) = "cleanGitRepoDir" THEN 0 ELSE i
              /\ log' = Append(log, Ev("Head", e))
              /\ UNCHANGED err
    /\ UNCHANGED << rcontent, given, resolveVars, extractVars, genVars, buildVars, gitVars,
                    healthErr, callerVars >>

\* the entries os.ReadDir finds in the directory
Entries == { p \in Paths : wt[p] # Absent } \cup (IF residue THEN {".git"} ELSE {})

\* the attempt going on to Clone although entries could not be removed
cleanGitRepoDirLenient ==
    /\ pc = "cleanGitRepoDir"
    /\ \/ /\ wt' = EmptyTree
          /\ residue' = FALSE
          /\ pc' = "Clone"
          /\ log' = Append(log, Ev("cleanGitRepoDir", "nil"))
          /\ UNCHANGED err
       \/ /\ UNCHANGED << wt, residue >>
          /\ RetryFailed({"ReadDir"}, Ev("cleanGitRepoDir", "err"))
       \/ \E kept \in (SUBSET Entries) \ {{}} :
             /\ wt' = [p \in Paths |-> IF p \in kept THEN wt[p] ELSE Absent]
             /\ residue' = (".git" \in kept)
             /\ pc' = "Clone"
             /\ log' = Append(log, Ev("cleanGitRepoDir", "err"))
             /\ UNCHANGED err
    /\ UNCHANGED << repoOpen, head, remote, recVars, resolveVars, extractVars, genVars,
                    buildVars, healthErr, callerVars >>

\* cleanGitRepoDir, the first statement of the function retry calls
cleanGitRepoDir ==
    /\ pc = "cleanGitRepoDir"
    /\ \/ /\ wt' = EmptyTree
          /\ residue' = FALSE
          /\ pc' = "Clone"
          /\ log' = Append(log, Ev("cleanGitRepoDir", "nil"))
          /\ UNCHANGED err
       \/ /\ UNCHANGED << wt, residue >>
          /\ RetryFailed({"ReadDir"}, Ev("cleanGitRepoDir", "err"))
       \/ \E kept \in (SUBSET Entries) \ {{}} :
             /\ wt' = [p \in Paths |-> IF p \in kept THEN wt[p] ELSE Absent]
             /\ residue' = (".git" \in kept)
             /\ RetryFailed({"RemoveAll"}, Ev("cleanGitRepoDir", "err"))
    /\ UNCHANGED << repoOpen, head, remote, recVars, resolveVars, extractVars, genVars,
                    buildVars, healthErr, callerVars >>

\* f.gitClient.Clone(ctx, f.url, branch): it cannot succeed once ctx is
\* cancelled
Clone ==
    /\ pc = "Clone"
    /\ \/ /\ ~ctxDone
          /\ repoOpen' = TRUE
          /\ wt' = remote
          /\ head' = remote
          /\ residue' = FALSE
          /\ pc' = "Commit"
          /\ log' = Append(log, Ev("Clone", "nil"))
          /\ UNCHANGED err
       \/ /\ residue' \in BOOLEAN
          /\ UNCHANGED << repoOpen, wt, head >>
          /\ RetryFailed({"Clone"}, Ev("Clone", "err"))
    /\ UNCHANGED << remote, recVars, resolveVars, extractVars, genVars, buildVars, healthErr, callerVars >>

\* retry: time.Sleep(wait) and the next iteration
Sleep ==
    /\ pc = "Sleep"
    /\ i' = i + 1
    /\ pc' = "cleanGitRepoDir"
    /\ log' = Append(log, Ev("Sleep", "nil"))
    /\ UNCHANGED << err, rcontent, given, resolveVars, extractVars, genVars, buildVars,
                    gitVars, healthErr, callerVars >>

\* commitAndPushComponents pushing whenever Commit is not fatal
afterCommitAlwaysPush(e) ==
    CASE e \in {"nil", "ErrNoStagedFiles"} -> "Push"
      [] OTHER                             -> "return"

\* commitAndPushComponents treating every Commit error as fatal
afterCommitStrict(e) ==
    CASE e = "nil" -> "Push"
      [] OTHER     -> "return"

\* commitAndPushComponents: what follows a Commit that returned error e
\* ("nil", "ErrNoStagedFiles" or "err")
afterCommit(e) ==
    CASE e = "nil"              -> "Push"
      [] e = "ErrNoStagedFiles" -> "mustInstallManifests"
      [] OTHER                  -> "return"

\* commitAndPushComponents: f.gitClient.Commit with the file path -> content.
\* The client writes the file, stages every changed file of the working tree
\* and reports ErrNoStagedFiles when the status is clean.
Commit ==
    /\ pc = "Commit"
    /\ \E o \in {"ok", "writeFile", "commit"} :
         LET written == [wt EXCEPT !["target"] = rcontent]
             e == IF o = "writeFile" \/ ~repoOpen THEN "err"
                  ELSE IF written = head THEN "ErrNoStagedFiles"
                  ELSE IF o = "commit" THEN "err"
                  ELSE "nil"
         IN
         /\ wt' = IF o = "writeFile" \/ ~repoOpen THEN wt ELSE written
         /\ head' = IF e = "nil" THEN written ELSE head
         /\ IF afterCommit(e) = "return"
            THEN /\ pc' = "reconciled"
                 /\ err' = {"Commit"}
                 /\ log' = log \o << Ev("Commit", e), Ev("return", "err") >>
            ELSE /\ pc' = afterCommit(e)
                 /\ log' = Append(log, Ev("Commit", e))
                 /\ UNCHANGED err
    /\ UNCHANGED << repoOpen, residue, remote, recVars, resolveVars, extractVars, genVars,
                    buildVars, healthErr, callerVars >>

\* commitAndPushComponents: f.gitClient.Push(ctx), which cannot succeed once
\* ctx is cancelled
Push ==
    /\ pc = "Push"
    /\ \/ /\ ~ctxDone
          /\ remote' = head
          /\ pc' = "mustInstallManifests"
          /\ log' = Append(log, Ev("Push", "nil"))
          /\ UNCHANGED err
       \/ /\ UNCHANGED remote
          /\ pc' = "reconciled"
          /\ err' = {"Push"}
          /\ log' = log \o << Ev("Push", "err"), Ev("return", "err") >>
    /\ UNCHANGED << repoOpen, wt, residue, head, recVars, resolveVars, extractVars, genVars,
                    buildVars, healthErr, callerVars >>

\* f.mustInstallManifests: the cluster query for the sync object
mustInstallManifests ==
    /\ pc = "mustInstallManifests"
    /\ \/ /\ pc' = "Apply"
          /\ log' = Append(log, Ev("MustInstallKustomization", "true"))
          /\ UNCHANGED err
       \/ /\ pc' = "reconciled"
          /\ err' = Nil
          /\ log' = log \o << Ev("MustInstallKustomization", "false"), Ev("return", "nil") >>
    /\ UNCHANGED << recVars, resolveVars, extractVars, genVars, buildVars, gitVars,
                    healthErr, callerVars >>

\* reconcileComponents applying the manifest even when the kustomization file
\* is there
applyTargetManifest == "ApplyManifest"

\* the file reconcileComponents applies: the kustomization file next to the
\* manifest when os.Stat finds it, the manifest otherwise
applyTarget == IF wt["target-kustomization"] # Absent THEN "ApplyKustomization"
               ELSE "ApplyManifest"

\* kubeutils.Apply
Apply ==
    /\ pc = "Apply"
    /\ \E e \in {Nil, {"Apply"}} :
         /\ pc' = "reconciled"
         /\ err' = e
         /\ log' = log \o << Ev(applyTarget, IF e = Nil THEN "nil" ELSE "err"),
                              Ev("return", IF e = Nil THEN "nil" ELSE "err") >>
    /\ UNCHANGED << recVars, resolveVars, extractVars, genVars, buildVars, gitVars,
                    healthErr, callerVars >>

\* ================================================================= Install
\* Install: the return of generateGOTKComponent and the call of
\* reconcileComponents with the rendered manifest
InstallReconcile ==
    /\ pc = "buildKustomization"
    /\ bpc[1] = "returned"
    /\ IF berr[1] # Nil
       THEN /\ pc' = "done"
            /\ err' = berr[1]
            /\ UNCHANGED << log, rcontent, given >>
       ELSE /\ pc' = "Head"
            /\ rcontent' = bout[1]
            /\ given' = Append(given, bout[1])
            /\ log' = Append(log, Ev("reconcileComponents", "call"))
            /\ UNCHANGED err
    /\ UNCHANGED << i, resolveVars, extractVars, genVars, buildVars, gitVars, healthErr, callerVars >>

\* Install going on after reconcileComponents whatever it returned
reconcileFailedNever(e) == FALSE

\* Install: the test  err != nil  on the result of reconcileComponents
reconcileFailed(e) == e # Nil

\* Install: reconcileComponents returned an error
InstallReconcileFailed ==
    /\ pc = "reconciled"
    /\ reconcileFailed(err)
    /\ pc' = "done"
    /\ UNCHANGED << err, log, resolveVars, extractVars, genVars, buildVars, gitVars,
                    recVars, healthErr, callerVars >>

\* f.fluxBootstrapper.ReconcileSourceSecret
ReconcileSourceSecret ==
    /\ pc = "reconciled"
    /\ ~reconcileFailed(err)
    /\ \/ /\ pc' = "ReconcileSyncConfig"
          /\ log' = Append(log, Ev("ReconcileSourceSecret", "nil"))
          /\ UNCHANGED err
       \/ /\ pc' = "done"
          /\ err' = {"ReconcileSourceSecret"}
          /\ log' = Append(log, Ev("ReconcileSourceSecret", "err"))
    /\ UNCHANGED << resolveVars, extractVars, genVars, buildVars, gitVars, recVars,
                    healthErr, callerVars >>

\* f.fluxBootstrapper.ReconcileSyncConfig
ReconcileSyncConfig ==
    /\ pc = "ReconcileSyncConfig"
    /\ \/ /\ pc' = "ReportKustomizationHealth"
          /\ log' = Append(log, Ev("ReconcileSyncConfig", "nil"))
          /\ UNCHANGED err
       \/ /\ pc' = "done"
          /\ err' = {"ReconcileSyncConfig"}
          /\ log' = Append(log, Ev("ReconcileSyncConfig", "err"))
    /\ UNCHANGED << resolveVars, extractVars, genVars, buildVars, gitVars, recVars,
                    healthErr, callerVars >>

\* Install keeping only the error of the last health check
joinHealthOverwrite(h, e) == e

\* Install: healthErr = errors.Join(healthErr, err) after a health check
joinHealth(h, e) == Join(h, e)

\* f.fluxBootstrapper.ReportKustomizationHealth and the join of its error
ReportKustomizationHealth ==
    /\ pc = "ReportKustomizationHealth"
    /\ \E e \in {Nil, {"KustomizationHealth"}} :
         /\ healthErr' = joinHealth(healthErr, e)
         /\ log' = Append(log, Ev("ReportKustomizationHealth", IF e = Nil THEN "nil" ELSE "err"))
    /\ pc' = "ReportComponentsHealth"
    /\ UNCHANGED << err, resolveVars, extractVars, genVars, buildVars, gitVars, recVars,
                    callerVars >>

\* f.fluxBootstrapper.ReportComponentsHealth, the join and the return
ReportComponentsHealth ==
    /\ pc = "ReportComponentsHealth"
    /\ \E e \in {Nil, {"ComponentsHealth"}} :
         /\ healthErr' = joinHealth(healthErr, e)
         /\ log' = Append(log, Ev("ReportComponentsHealth", IF e = Nil THEN "nil" ELSE "err"))
    /\ err' = healthErr'
    /\ pc' = "done"
    /\ UNCHANGED << resolveVars, extractVars, genVars, buildVars, gitVars, recVars,
                    callerVars >>

\* ================================================================= drivers
\* contents a caller hands to reconcileComponents
Contents == { << "c1" >>, << "c2" >> }

\* a caller of reconcileComponents on the working copy of one fluxInstall
CallReconcile ==
    /\ pc \in {"idle", "reconciled"}
    /\ Len(given) < MaxReconcile
    /\ rcontent' \in Contents
    /\ given' = Append(given, rcontent')
    /\ pc' = "Head"
    /\ log' = Append(log, Ev("reconcileComponents", "call"))
    /\ UNCHANGED << err, i, resolveVars, extractVars, genVars, buildVars, gitVars,
                    healthErr, callerVars >>

\* the caller cancels the context it handed to reconcileComponents
Cancel ==
    /\ ~ctxDone
    /\ pc \notin {"idle", "done"}
    /\ ctxDone' = TRUE
    /\ UNCHANGED << pc, err, log, refs, visited, dirs, resolveVars, extractVars, genVars,
                    buildVars, gitVars, recVars, healthErr >>

\* descriptors concurrent callers hand to buildKustomization
Descriptors ==
    { Kustomization(<< "./gotk-components.yaml" >>,
                    << Image(<< DefaultFluxHost, "/", "source-controller" >>, << "r", "/", "n" >>, << t >>) >>)
      : t \in {"1", "2"} }

\* a caller of buildKustomization on the directory, with the mutex of the
\* fluxInstall
CallBuild(p) ==
    /\ bpc[p] \in {"idle", "returned"}
    /\ bcalls[p] < MaxBuilds
    /\ bkus' \in { [bkus EXCEPT ![p] = d] : d \in Descriptors }
    /\ bcalls' = [bcalls EXCEPT ![p] = @ + 1]
    /\ bpc' = [bpc EXCEPT ![p] = "WriteFile"]
    /\ bread' = [bread EXCEPT ![p] = Absent]
    /\ UNCHANGED << pc, err, log, mu, bout, berr, resolveVars, extractVars, genVars,
                    gitVars, recVars, healthErr, callerVars >>

\* =========================================================== Bootstrap.Run
\* longest list of component references a bootstrap component declares
MaxRefs == 3

\* the names a component reference may have
ComponentNames == {"flux", "ocm-controller", "other"}

\* the keys of the map fetchBootstrapComponentReferences returns
Keys(declared) == { declared[k] : k \in 1..Len(declared) }

\* the component the loop of Run is at
Current == visited[Len(visited)]

\* a return statement of Run with the error e: the deferred calls run before
\* Run is over
RunReturn(e) == pc' = "deferred" /\ err' = e

\* a step of Run that can only succeed or end Run with an error
RunStep(op, next) ==
    /\ \/ /\ pc' = next
          /\ log' = Append(log, Ev(op, "nil"))
          /\ UNCHANGED err
       \/ /\ RunReturn({op})
          /\ log' = Append(log, Ev(op, "err"))
    /\ UNCHANGED << ctxDone, refs, visited, dirs, resolveVars, extractVars, genVars,
                    buildVars, gitVars, recVars, healthErr >>

\* Run: the test of b.fromFile
RunStart ==
    /\ pc = "Run"
    /\ \E fromFile \in {"", "file"} :
         IF fromFile # ""
         THEN RunReturn({"fromFile"})
         ELSE pc' = "Get" /\ UNCHANGED err
    /\ UNCHANGED << log, callerVars, resolveVars, extractVars, genVars, buildVars, gitVars,
                    recVars, healthErr >>

\* reconcileRepository creating the repository after any error of Get
afterGetAnyError(e) ==
    CASE e = "nil" -> "getCloneURL"
      [] OTHER     -> "Reconcile"

\* reconcileRepository: what follows a Get that returned e ("nil",
\* "ErrNotFound" or "err")
afterGet(e) ==
    CASE e = "nil"         -> "getCloneURL"
      [] e = "ErrNotFound" -> "Reconcile"
      [] OTHER             -> "return"

\* reconcileRepository: UserRepositories().Get or OrgRepositories().Get; the
\* two branches differ only in the reference they build.  The error that
\* reconcileRepository returns is never errReconciledWithWarning, so
\* reconcileManagementRepository returns every error it gets.
RepositoryGet ==
    /\ pc = "Get"
    /\ \E e \in {"nil", "ErrNotFound", "err"} :
         /\ log' = Append(log, Ev("Get", e))
         /\ IF afterGet(e) = "return"
            THEN RunReturn({"Get"})
            ELSE pc' = afterGet(e) /\ UNCHANGED err
    /\ UNCHANGED << ctxDone, refs, visited, dirs, resolveVars, extractVars, genVars,
                    buildVars, gitVars, recVars, healthErr >>

\* reconcileRepository: UserRepositories().Reconcile or
\* OrgRepositories().Reconcile, which creates the repository
RepositoryReconcile ==
    /\ pc = "Reconcile"
    /\ RunStep("Reconcile", "getCloneURL")

\* reconcileManagementRepository: b.getCloneURL(repo, b.transportType)
getCloneURL ==
    /\ pc = "getCloneURL"
    /\ \E transport \in {"https", "ssh"} :
         IF transport = "ssh"
         THEN /\ RunReturn({"getCloneURL"})
              /\ log' = Append(log, Ev("getCloneURL", "err"))
         ELSE /\ pc' = "makeOCIRepository"
              /\ log' = Append(log, Ev("getCloneURL", "nil"))
              /\ UNCHANGED err
    /\ UNCHANGED << ctxDone, refs, visited, dirs, resolveVars, extractVars, genVars,
                    buildVars, gitVars, recVars, healthErr >>

\* makeOCIRepository(octx, b.registry, b.dockerConfigPath)
makeOCIRepository ==
    /\ pc = "makeOCIRepository"
    /\ RunStep("makeOCIRepository", "fetchBootstrapComponentReferences")

\* b.fetchBootstrapComponentReferences(ociRepo)
fetchBootstrapComponentReferences ==
    /\ pc = "fetchBootstrapComponentReferences"
    /\ RunStep("fetchBootstrapComponentReferences", "range")

\* the switch of Run on the key of the component
switchComp(comp) ==
    CASE comp = "flux"           -> "mkdirTempDir"
      [] comp = "ocm-controller" -> "mkdirTempDir"
      [] OTHER                   -> "return"

\* for comp, ref := range refs: the map is iterated in an order the language
\* leaves open; each key is taken once
RunRange ==
    /\ pc = "range"
    /\ IF Keys(refs) \subseteq Keys(visited)
       THEN /\ RunReturn(Nil)
            /\ UNCHANGED visited
       ELSE \E comp \in Keys(refs) \ Keys(visited) :
              /\ visited' = Append(visited, comp)
              /\ IF switchComp(comp) = "return"
                 THEN RunReturn({"UnknownComponent"})
                 ELSE pc' = switchComp(comp) /\ UNCHANGED err
    /\ UNCHANGED << log, ctxDone, refs, dirs, resolveVars, extractVars, genVars, buildVars,
                    gitVars, recVars, healthErr >>

\* mkdirTempDir and  defer os.RemoveAll(dir).  A directory that os.MkdirTemp
\* created is not returned when filepath.EvalSymlinks fails.
mkdirTempDir ==
    /\ pc = "mkdirTempDir"
    /\ \E o \in {"ok", "MkdirTemp", "EvalSymlinks"} :
         /\ dirs' = CASE o = "ok"           -> Append(dirs, "obtained")
                      [] o = "EvalSymlinks" -> Append(dirs, "leaked")
                      [] OTHER              -> dirs
         /\ log' = Append(log, Ev("mkdirTempDir", IF o = "ok" THEN "nil" ELSE "err"))
         /\ IF o = "ok"
            THEN pc' = "NewInstall" /\ UNCHANGED err
            ELSE RunReturn({o})
    /\ UNCHANGED << ctxDone, refs, visited, resolveVars, extractVars, genVars, buildVars,
                    gitVars, recVars, healthErr >>

\* NewFluxInstall / NewComponentInstall
NewInstall ==
    /\ pc = "NewInstall"
    /\ RunStep("NewInstall", "Install")

\* the call inst.Install(ctx, comp)
RunInstall ==
    /\ pc = "Install"
    /\ pc' = "Installing"
    /\ log' = Append(log, Ev("Install", Current))
    /\ UNCHANGED << err, callerVars, resolveVars, extractVars, genVars, buildVars, gitVars,
                    recVars, healthErr >>

\* Run going on with the next component whatever Install returned
afterInstallIgnore(e) == "range"

\* Run: what follows an Install that returned e
afterInstall(e) == IF e = Nil THEN "range" ELSE "return"

\* the return of inst.Install
RunInstallReturn ==
    /\ pc = "Installing"
    /\ \E e \in {Nil, {"Install"}} :
         /\ log' = Append(log, Ev("InstallReturn", IF e = Nil THEN "nil" ELSE "err"))
         /\ IF afterInstall(e) = "return"
            THEN RunReturn(e)
            ELSE pc' = afterInstall(e) /\ UNCHANGED err
    /\ UNCHANGED << callerVars, resolveVars, extractVars, genVars, buildVars, gitVars,
                    recVars, healthErr >>

\* inst.Install panics (getResourceRef): Run unwinds through its deferred
\* calls; err holds the panic in flight
RunInstallPanic ==
    /\ pc = "Installing"
    /\ RunReturn({"panic"})
    /\ log' = Append(log, Ev("InstallPanic", Current))
    /\ UNCHANGED << callerVars, resolveVars, extractVars, genVars, buildVars, gitVars,
                    recVars, healthErr >>

\* the directories whose deferred os.RemoveAll has not run yet
Pending == { k \in 1..Len(dirs) : dirs[k] = "obtained" }

\* the greatest of a set of positions
LastOf(S) == CHOOSE k \in S : \A j \in S : j <= k

\* Run removing its directories only when it returns success
RunDeferredOnSuccess ==
    /\ pc = "deferred"
    /\ IF Pending = {} \/ err # Nil
       THEN /\ pc' = IF err = {"panic"} THEN "panic" ELSE "done"
            /\ UNCHANGED dirs
       ELSE /\ \E o \in {"removed", "failed"} :
                 dirs' = [dirs EXCEPT ![LastOf(Pending)] = o]
            /\ UNCHANGED pc
    /\ UNCHANGED << err, log, ctxDone, refs, visited, resolveVars, extractVars, genVars,
                    buildVars, gitVars, recVars, healthErr >>

\* the deferred os.RemoveAll(dir) calls, last registered first, and the end
\* of Run; os.RemoveAll removes the directory or fails, and its result is
\* discarded
RunDeferred ==
    /\ pc = "deferred"
    /\ IF Pending = {}
       THEN /\ pc' = IF err = {"panic"} THEN "panic" ELSE "done"
            /\ UNCHANGED dirs
       ELSE /\ \E o \in {"removed", "failed"} :
                 dirs' = [dirs EXCEPT ![LastOf(Pending)] = o]
            /\ UNCHANGED pc
    /\ UNCHANGED << err, log, ctxDone, refs, visited, resolveVars, extractVars, genVars,
                    buildVars, gitVars, recVars, healthErr >>

\* ------------------------------------------------------- initial states
rFlux      == Resource("flux", "file", "localBlob", << "m1" >>, << >>)
rFluxEmpty == Resource("flux", "file", "localBlob", << >>, << >>)
rCfg       == Resource("ocm-config", "file", "localBlob",
                       << "localization:", "source-controller", "helm-controller" >>, << >>)
rCfgEmpty  == Resource("ocm-config", "file", "localBlob", << >>, << >>)
rImg       == Resource("source-controller", "ociImage", "ociArtifact", << >>,
                       << "r", "/", "n", ":", "t" >>)
rImgPort   == Resource("helm-controller", "ociImage", "ociArtifact", << >>,
                       << "h", ":", "5", "/", "n", ":", "t" >>)
rImgNoTag  == Resource("source-controller", "ociImage", "ociArtifact", << >>,
                       << "r", "/", "n" >>)
rImgBlob   == Resource("source-controller", "ociImage", "localBlob", << >>,
                       << "r", "/", "n", ":", "t" >>)
rOther     == Resource("readme", "file", "localBlob", << "x" >>, << >>)
rImgDup    == Resource("source-controller", "ociImage", "ociArtifact", << >>,
                       << "r", "/", "n", ":", "u" >>)

\* the resource lists of the component versions a repository may hold
Bundles ==
    { << rFlux, rCfg, rImg >>,
      << rFlux, rCfg, rImg, rImgPort, rOther >>,
      << rFlux, rImg >>,
      << rCfg, rImg >>,
      << rImgNoTag, rFlux, rCfg >>,
      << rImgBlob, rFlux, rCfg >>,
      << rFlux, rCfgEmpty >>,
      << rFluxEmpty, rCfg >>,
      << rFlux, rCfg, rOther, rImg, rImgDup >>,
      << >> }

\* the trees the remote branch may hold before the run
Remotes(targets) ==
    { [EmptyTree EXCEPT !["target"] = c, !["target-kustomization"] = k] :
        c \in targets, k \in {Absent, << "k" >>} }

InitBuildIdle ==
    /\ bpc = [p \in Procs |-> "idle"]
    /\ bkus = [p \in Procs |-> baseKustomization("./gotk-components.yaml")]
    /\ bcalls = [p \in Procs |-> 0]
    /\ mu = 0
    /\ bread = [p \in Procs |-> Absent]
    /\ bout = [p \in Procs |-> NilBytes]
    /\ berr = [p \in Procs |-> Nil]

InitRunIdle ==
    /\ err = Nil
    /\ log = << >>
    /\ ver = NoVersion
    /\ lookedUp = NoVersion
    /\ ri = 1
    /\ res = NoResources
    /\ kus = baseKustomization("./gotk-components.yaml")
    /\ kconfig = << >>
    /\ repoOpen = FALSE
    /\ residue = FALSE
    /\ head = EmptyTree
    /\ rcontent = Absent
    /\ given = << >>
    /\ i = 0
    /\ healthErr = Nil
    /\ ctxDone = FALSE
    /\ visited = << >>
    /\ dirs = << >>

\* Install on a new fluxInstall: a new git client on an empty directory
Init ==
    /\ pc = "LookupComponent"
    /\ vnames \in { << v010, v020, v011 >>, << n02, vBad >> }
    /\ constraint \in { Constraint("=", << 0, 1, X >>), Constraint("=", << 0, 2, 0 >>) }
    /\ bundle \in Bundles
    /\ wt = EmptyTree
    /\ remote \in Remotes({Absent, << "old" >>})
    /\ refs = << >>
    /\ InitRunIdle
    /\ InitBuildIdle

Next ==
    \/ LookupComponent
    \/ ListVersions
    \/ SelectVersion
    \/ LookupVersion
    \/ getResourcesStep
    \/ getResourcesReturn
    \/ generateKustomization
    \/ unMarshallConfig
    \/ generateGOTKComponent
    \/ BWrite(1)
    \/ BLock(1)
    \/ BBuild(1)
    \/ BUnlock(1)
    \/ InstallReconcile
    \/ gitHead
    \/ cleanGitRepoDir
    \/ Clone
    \/ Sleep
    \/ Commit
    \/ Push
    \/ mustInstallManifests
    \/ Apply
    \/ InstallReconcileFailed
    \/ ReconcileSourceSecret
    \/ ReconcileSyncConfig
    \/ ReportKustomizationHealth
    \/ ReportComponentsHealth

Spec == Init /\ [][Next]_vars

\* an Install run in which every call that is made returns
SpecLive == Init /\ [][Next]_vars /\ WF_vars(Next)

\* getComponentVersion on every listing and constraint within the bounds
InitResolve ==
    /\ pc = "LookupComponent"
    /\ vnames \in SeqsUpTo(VersionNames, MaxVersions)
    /\ constraint \in Constraints
    /\ bundle = << >>
    /\ wt = EmptyTree
    /\ remote = EmptyTree
    /\ refs = << >>
    /\ InitRunIdle
    /\ InitBuildIdle

NextResolve ==
    \/ LookupComponent
    \/ ListVersions
    \/ SelectVersion
    \/ LookupVersion

SpecResolve == InitResolve /\ [][NextResolve]_vars

\* reconcileComponents called repeatedly on the working copy of one fluxInstall
InitReconcile ==
    /\ pc = "idle"
    /\ vnames = << >>
    /\ constraint = Constraint("=", << X >>)
    /\ bundle = << >>
    /\ wt = EmptyTree
    /\ remote \in Remotes({Absent} \cup Contents)
    /\ refs = << >>
    /\ InitRunIdle
    /\ InitBuildIdle

NextReconcile ==
    \/ CallReconcile
    \/ gitHead
    \/ cleanGitRepoDir
    \/ Clone
    \/ Sleep
    \/ Commit
    \/ Push
    \/ mustInstallManifests
    \/ Apply

SpecReconcile == InitReconcile /\ [][NextReconcile]_vars

\* reconcileComponents called with a context that the caller may cancel at
\* any moment of the call
NextCancel ==
    \/ NextReconcile
    \/ Cancel

SpecCancel == InitReconcile /\ [][NextCancel]_vars

\* two callers of buildKustomization on the directory generateKustomization
\* has prepared
InitBuild ==
    /\ pc = "idle"
    /\ vnames = << >>
    /\ constraint = Constraint("=", << X >>)
    /\ bundle = << >>
    /\ wt = [EmptyTree EXCEPT !["gotk-components.yaml"] = << "m1" >>,
                              !["kustomization.yaml"] =
                                  Marshal(baseKustomization("./gotk-components.yaml"))]
    /\ remote = EmptyTree
    /\ refs = << >>
    /\ InitRunIdle
    /\ InitBuildIdle

NextBuild ==
    \E p \in Procs :
        \/ CallBuild(p)
        \/ BWrite(p)
        \/ BLock(p)
        \/ BBuild(p)
        \/ BUnlock(p)

SpecBuild == InitBuild /\ [][NextBuild]_vars

\* the lists of references a bootstrap component may declare: no name twice
DeclaredRefs ==
    { s \in SeqsUpTo(ComponentNames, MaxRefs) :
        \A j, k \in 1..Len(s) : (j # k) => s[j] # s[k] }

\* Bootstrap.Run on the references a bootstrap component declares
InitRun ==
    /\ pc = "Run"
    /\ vnames = << >>
    /\ constraint = Constraint("=", << X >>)
    /\ bundle = << >>
    /\ wt = EmptyTree
    /\ remote = EmptyTree
    /\ refs \in DeclaredRefs
    /\ InitRunIdle
    /\ InitBuildIdle

NextRun ==
    \/ RunStart
    \/ RepositoryGet
    \/ RepositoryReconcile
    \/ getCloneURL
    \/ makeOCIRepository
    \/ fetchBootstrapComponentReferences
    \/ RunRange
    \/ mkdirTempDir
    \/ NewInstall
    \/ RunInstall
    \/ RunInstallReturn
    \/ RunInstallPanic
    \/ RunDeferred

SpecRun == InitRun /\ [][NextRun]_vars

\* ================================================================== claims
\* ------------------------------------------------------------------- C1
AllParse == \A k \in 1..Len(vnames) : ~NewVersionFails(vnames[k])

Matching == { k \in 1..Len(vnames) : Check(constraint, NewVersion(vnames[k])) }

FirstMatching == CHOOSE k \in Matching : \A j \in Matching : k <= j

\* the listing was obtained and the selection loop has run
Selected ==
    /\ \E k \in 1..Len(log) : log[k] = Ev("ListVersions", "nil")
    /\ pc # "NewConstraint"

\* C1: when every listed version parses and the constraint is valid,
\* getComponentVersion selects the first listed version that satisfies the
\* constraint and calls LookupVersion once, with that name as listed; when no
\* listed version satisfies it, it returns the not-found error and never calls
\* LookupVersion.
C1_FirstMatch ==
    (AllParse /\ ~NewConstraintFails(constraint) /\ Selected) =>
        IF Matching = {}
        THEN /\ pc = "done"
             /\ err = {"NoMatchingVersion"}
             /\ Calls(log, "LookupVersion") = 0
        ELSE /\ ver = vnames[FirstMatching]
             /\ IF pc = "LookupVersion"
                THEN Calls(log, "LookupVersion") = 0
                ELSE Calls(log, "LookupVersion") = 1 /\ lookedUp = vnames[FirstMatching]

\* C1 witness: "v0.1.x" over [v0.1.0, v0.2.0, v0.1.1] looked up v0.1.0
C1_Witness ==
    /\ vnames = << v010, v020, v011 >>
    /\ constraint = Constraint("=", << 0, 1, X >>)
    /\ pc = "getResources"
    /\ lookedUp = v010

\* ------------------------------------------------------------------- C2
\* C2: in commitAndPushComponents the call after a Commit that returned nil is
\* Push and every Push directly follows such a Commit; after ErrNoStagedFiles
\* the function returns nil without Push (reconcileComponents goes on to the
\* cluster query); after any other Commit error and after a failed Push the
\* run returns an error.
C2_PushIffCommitted ==
    /\ \A k \in Positions(log, "Commit") :
          /\ log[k].r = "nil" =>
                IF k = Len(log) THEN pc = "Push" ELSE log[k + 1].op = "Push"
          /\ log[k].r = "ErrNoStagedFiles" =>
                IF k = Len(log) THEN pc = "mustInstallManifests"
                ELSE log[k + 1].op = "MustInstallKustomization"
          /\ log[k].r = "err" => k < Len(log) /\ log[k + 1] = Ev("return", "err")
    /\ \A k \in Positions(log, "Push") :
          /\ k > 1 /\ log[k - 1] = Ev("Commit", "nil")
          /\ log[k].r = "err" => k < Len(log) /\ log[k + 1] = Ev("return", "err")
          /\ log[k].r = "nil" =>
                IF k = Len(log) THEN pc = "mustInstallManifests"
                ELSE log[k + 1].op = "MustInstallKustomization"
    /\ pc = "Push" => Last(log) = Ev("Commit", "nil")

\* C2 witness: a run whose Commit found nothing staged has returned success
C2_Witness ==
    /\ pc = "reconciled"
    /\ err = Nil
    /\ \E k \in Positions(log, "Commit") :
          /\ log[k].r = "ErrNoStagedFiles"
          /\ \A j \in (k + 1)..Len(log) : log[j].op # "Push"

\* ------------------------------------------- the calls of reconcileComponents
\* position in log of the n-th call of reconcileComponents
CallPos(n) ==
    CHOOSE k \in Positions(log, "reconcileComponents") :
        Cardinality({ j \in Positions(log, "reconcileComponents") : j <= k }) = n

\* last position of log that may belong to the n-th call
SegLimit(n) == IF n < Len(given) THEN CallPos(n + 1) - 1 ELSE Len(log)

Returned(n) == \E k \in CallPos(n)..SegLimit(n) : log[k].op = "return"

\* position of the return of the n-th call, or the last position so far
SegEnd(n) ==
    IF Returned(n)
    THEN CHOOSE k \in CallPos(n)..SegLimit(n) : log[k].op = "return"
    ELSE SegLimit(n)

\* the positions of the calls made by the n-th call of reconcileComponents
Seg(n) == CallPos(n)..SegEnd(n)

ReturnOf(n) == log[SegEnd(n)].r

\* no call made by the n-th call of reconcileComponents reported a failure
NoFailure(n) == \A k \in Seg(n) : log[k].op # "return" => log[k].r # "err"

OpsIn(n, op) == Cardinality({ k \in Seg(n) : log[k].op = op })

Committed(n) == \E k \in Seg(n) : log[k] = Ev("Commit", "nil")

\* ------------------------------------------------------------------- C3
\* C3 as stated: two calls of reconcileComponents on one working copy with the
\* same content and no failing call make exactly one Push in total and both
\* return success.
C3_ExactlyOnePush ==
    ( /\ Len(given) >= 2
      /\ given[1] = given[2]
      /\ Returned(2)
      /\ NoFailure(1)
      /\ NoFailure(2) ) =>
        /\ OpsIn(1, "Push") + OpsIn(2, "Push") = 1
        /\ ReturnOf(1) = "nil"
        /\ ReturnOf(2) = "nil"

\* C3 amended: when reconcileComponents is called again with the content of the
\* previous call and no call fails in either, the later call makes no Push
\* and both return success; the earlier call makes one Push when its Commit
\* created a commit and none when the cloned tree already held the content,
\* so at most one Push is made in total.
C3_SecondCallNoPush ==
    \A n \in 2..Len(given) :
        ( /\ given[n] = given[n - 1]
          /\ Returned(n)
          /\ NoFailure(n - 1)
          /\ NoFailure(n) ) =>
            /\ OpsIn(n, "Push") = 0
            /\ ReturnOf(n) = "nil"
            /\ ReturnOf(n - 1) = "nil"
            /\ OpsIn(n - 1, "Push") = (IF Committed(n - 1) THEN 1 ELSE 0)

\* C3 witness: two successful calls with the same content, one Push in all
C3_Witness ==
    /\ Len(given) = 2
    /\ given[1] = given[2]
    /\ Returned(2)
    /\ NoFailure(1)
    /\ NoFailure(2)
    /\ OpsIn(1, "Push") = 1
    /\ OpsIn(2, "Push") = 0
    /\ \E k \in Seg(2) : log[k] = Ev("Commit", "ErrNoStagedFiles")

\* ------------------------------------------------------------------- C4
\* C4: whenever reconcileComponents returns success the remote branch holds
\* the given content at the target path and no local commit is unpushed.
C4_SuccessMeansPushed ==
    (pc = "reconciled" /\ err = Nil) => (remote["target"] = rcontent /\ head = remote)

\* ------------------------------------------------------------------- C5
HealthReached == Calls(log, "ReportKustomizationHealth") > 0

\* the failures the health checks called so far have reported
HealthFailures ==
    (IF Ev("ReportKustomizationHealth", "err") \in { log[k] : k \in 1..Len(log) }
     THEN {"KustomizationHealth"} ELSE {})
    \cup
    (IF Ev("ReportComponentsHealth", "err") \in { log[k] : k \in 1..Len(log) }
     THEN {"ComponentsHealth"} ELSE {})

\* C5: once Install has reached health verification, the sync-object check has
\* been called once and the component check is called once after it whatever
\* the first returned; Install then returns an error exactly when a check
\* failed, and the error holds the failure of every check that failed.
C5_BothHealthChecks ==
    HealthReached =>
        /\ Calls(log, "ReportKustomizationHealth") = 1
        /\ IF pc = "done"
           THEN /\ Calls(log, "ReportComponentsHealth") = 1
                /\ err = HealthFailures
                /\ (err # Nil) <=> (HealthFailures # {})
           ELSE /\ pc = "ReportComponentsHealth"
                /\ Calls(log, "ReportComponentsHealth") = 0

\* C5 witness: the sync-object check failed, the component check succeeded and
\* Install returned the sync-object failure
C5_Witness ==
    /\ pc = "done"
    /\ Last(log) = Ev("ReportComponentsHealth", "nil")
    /\ log[Len(log) - 1] = Ev("ReportKustomizationHealth", "err")
    /\ err = {"KustomizationHealth"}

\* ------------------------------------------------------------------- C6
FailedAttempts(n) ==
    Cardinality({ k \in Seg(n) : log[k].op \in {"cleanGitRepoDir", "Clone"} /\ log[k].r = "err" })

\* C6: one call of reconcileComponents makes at most two clone attempts, the
\* second one after exactly one wait; when both attempts fail the call returns
\* a clone error and makes no Commit, no Push, no cluster query and no apply.
C6_CloneAtMostTwice ==
    \A n \in 1..Len(given) :
        /\ OpsIn(n, "Clone") <= 2
        /\ OpsIn(n, "cleanGitRepoDir") <= 2
        /\ OpsIn(n, "Sleep") <= 1
        /\ \A k \in Seg(n) :
              (log[k].op = "Sleep") =>
                  /\ log[k - 1].op \in {"cleanGitRepoDir", "Clone"} /\ log[k - 1].r = "err"
                  /\ \A j \in Seg(n) :
                        (j < k) => log[j].op \in {"reconcileComponents", "Head", "cleanGitRepoDir", "Clone"}
        /\ OpsIn(n, "cleanGitRepoDir") = 2 => OpsIn(n, "Sleep") = 1
        /\ FailedAttempts(n) <= 2
        /\ FailedAttempts(n) = 2 =>
              /\ Returned(n)
              /\ ReturnOf(n) = "err"
              /\ (n = Len(given)) => (pc \in {"reconciled", "done"} /\ err \in {{"Clone"}, {"ReadDir"}, {"RemoveAll"}})
              /\ \A k \in Seg(n) :
                    log[k].op \notin {"Commit", "Push", "MustInstallKustomization",
                                      "ApplyKustomization", "ApplyManifest"}

\* C6 witness: both Clone attempts of a call failed and the call returned the
\* error
C6_Witness ==
    /\ pc = "reconciled"
    /\ err = {"Clone"}
    /\ \E n \in 1..Len(given) :
          /\ n = Len(given)
          /\ Cardinality({ k \in Seg(n) : log[k] = Ev("Clone", "err") }) = 2
          /\ OpsIn(n, "Sleep") = 1

\* ------------------------------------------------------------------- C7
\* C7: the first call of reconcileComponents is the Head probe.  After a Head
\* that succeeded the call goes to Commit with no cleanup and no Clone; after
\* a Head that failed with another error than ErrNoGitRepository the call
\* returns that error with no cleanup, Clone, Commit or Push; cleanup and
\* Clone happen only after ErrNoGitRepository.
C7_CloneOnlyWithoutRepository ==
    \A n \in 1..Len(given) :
        IF CallPos(n) = Len(log) THEN pc = "Head"
        ELSE LET h == CallPos(n) + 1 IN
             /\ log[h].op = "Head"
             /\ OpsIn(n, "Head") = 1
             /\ log[h].r = "nil" =>
                   /\ OpsIn(n, "cleanGitRepoDir") = 0
                   /\ OpsIn(n, "Clone") = 0
                   /\ IF h = Len(log) THEN pc = "Commit" ELSE log[h + 1].op = "Commit"
             /\ log[h].r = "err" =>
                   /\ SegEnd(n) = h + 1
                   /\ log[h + 1] = Ev("return", "err")
                   /\ (n = Len(given)) => (pc \in {"reconciled", "done"} /\ err = {"Head"})
             /\ log[h].r = "ErrNoGitRepository" =>
                   IF h = Len(log) THEN pc = "cleanGitRepoDir"
                   ELSE log[h + 1].op = "cleanGitRepoDir"
             /\ (OpsIn(n, "cleanGitRepoDir") > 0 \/ OpsIn(n, "Clone") > 0) =>
                   log[h].r = "ErrNoGitRepository"

\* C7 witness: a call whose Head failed with another error returned it at once
C7_Witness ==
    /\ pc = "reconciled"
    /\ err = {"Head"}
    /\ log[Len(log) - 1] = Ev("Head", "err")
    /\ log[Len(log) - 2] = Ev("reconcileComponents", "call")

\* ------------------------------------------------------------------- C8
Events == { log[k] : k \in 1..Len(log) }

Ops == { log[k].op : k \in 1..Len(log) }

GitOps == {"Head", "cleanGitRepoDir", "Clone", "Sleep", "Commit", "Push"}

ApplyOps == {"MustInstallKustomization", "ApplyKustomization", "ApplyManifest"}

AuxOps == {"ReconcileSourceSecret", "ReconcileSyncConfig"}

HealthOps == {"ReportKustomizationHealth", "ReportComponentsHealth"}

\* the place of a call in the order of the steps of Install
Rank(op) ==
    CASE op \in {"LookupComponent", "ListVersions", "LookupVersion"} -> 1
      [] op \in {"getResourceContent", "Access"}                     -> 2
      [] op = "generateKustomization"                                -> 3
      [] op \in GitOps \cup {"reconcileComponents"}                  -> 4
      [] op \in ApplyOps \cup {"return"}                             -> 5
      [] op \in AuxOps                                               -> 6
      [] OTHER                                                       -> 7

ResolveOK == Ev("LookupVersion", "nil") \in Events

ExtractOK ==
    /\ ri > Len(bundle)
    /\ ~resourceMissing(res)
    /\ Ev("getResourceContent", "err") \notin Events

GenerateOK ==
    /\ Ev("generateKustomization", "nil") \in Events
    /\ ~decodeFails(res.ocmConfig)
    /\ bpc[1] = "returned"
    /\ berr[1] = Nil

\* Commit and Push of the call have succeeded (or there was nothing to commit)
GitOK ==
    \E k \in Positions(log, "Commit") :
        \/ log[k].r = "ErrNoStagedFiles"
        \/ log[k].r = "nil" /\ k < Len(log) /\ log[k + 1] = Ev("Push", "nil")

\* C8: the calls of an Install run are made in the order resolve, extract,
\* generate, Git reconcile, cluster apply, health verification; a step is
\* started only when every earlier step has succeeded, and the call that
\* makes a step fail is the last call of the run.
C8_StepOrder ==
    /\ \A j, k \in 1..Len(log) : (j < k) => Rank(log[j].op) <= Rank(log[k].op)
    /\ (Ops \cap {"getResourceContent", "Access", "generateKustomization"} # {}) => ResolveOK
    /\ ("generateKustomization" \in Ops) => ExtractOK
    /\ (bcalls[1] > 0) => (Ev("generateKustomization", "nil") \in Events /\ ExtractOK)
    /\ (Ops \cap (GitOps \cup {"reconcileComponents"}) # {}) =>
          (ResolveOK /\ ExtractOK /\ GenerateOK)
    /\ (Ops \cap ApplyOps # {}) => GitOK
    /\ (Ops \cap (AuxOps \cup HealthOps) # {}) =>
          (GitOK /\ Ev("return", "nil") \in Events /\ Ev("return", "err") \notin Events)
    /\ (Ops \cap HealthOps # {}) =>
          (Ev("ReconcileSourceSecret", "nil") \in Events /\ Ev("ReconcileSyncConfig", "nil") \in Events)
    /\ \A k \in 1..Len(log) :
          /\ (log[k].r = "err" /\ log[k].op \notin {"cleanGitRepoDir", "Clone", "Access"} \cup HealthOps) =>
                \A j \in (k + 1)..Len(log) : log[j].op = "return"
          /\ log[k] = Ev("return", "err") => k = Len(log)
    /\ (bpc[1] = "returned" /\ berr[1] # Nil) => Ops \cap (GitOps \cup ApplyOps \cup HealthOps) = {}

\* C8 witness: a run that pushed, applied and passed both health checks
C8_Witness ==
    /\ pc = "done"
    /\ err = Nil
    /\ Ev("Push", "nil") \in Events
    /\ Ops \cap {"ApplyKustomization", "ApplyManifest"} # {}
    /\ Ev("ReportComponentsHealth", "nil") \in Events

\* ------------------------------------------------------------------- C9
Lacks(name) == \A k \in 1..Len(bundle) : bundle[k].name # name

\* C9: when the bundle has no resource named ocm-config or none named like the
\* component, Install makes no Git call and no cluster call, never returns
\* success, and returns the resource-not-found error whenever resolution and
\* the reading of the resources that are present did not fail before.
C9_MissingResourceFailsEarly ==
    (Lacks("ocm-config") \/ Lacks(ComponentName)) =>
        /\ Ops \cap (GitOps \cup ApplyOps \cup AuxOps \cup HealthOps \cup {"reconcileComponents"}) = {}
        /\ pc \in {"LookupComponent", "ListVersions", "NewConstraint", "LookupVersion",
                    "getResources", "panic", "done"}
        /\ pc = "done" => err # Nil
        /\ (pc = "done" /\ ResolveOK /\ Ev("getResourceContent", "err") \notin Events) =>
              err = {"ResourceNotFound"}

\* C9 witness: a bundle with the component resource but without ocm-config made
\* Install return the resource-not-found error
C9_Witness ==
    /\ Lacks("ocm-config")
    /\ ~Lacks(ComponentName)
    /\ pc = "done"
    /\ err = {"ResourceNotFound"}
    /\ ri > Len(bundle)

\* ------------------------------------------------------------------ C10
\* C10: the kustomize build of a buildKustomization call reads the descriptor
\* that the same call has written.
C10_BuildReadsOwnDescriptor ==
    \A p \in Procs :
        (bpc[p] \in {"Unlock", "returned"} /\ bread[p] # Absent) => bread[p] = Marshal(bkus[p])

\* ------------------------------------------------------------------ C11
\* position of the first listed name that does not parse
FirstBad == CHOOSE k \in 1..Len(vnames) :
                /\ NewVersionFails(vnames[k])
                /\ \A j \in 1..(k - 1) : ~NewVersionFails(vnames[j])

\* the listed names before position k that satisfy the constraint
MatchingBefore(k) == { j \in 1..(k - 1) : Check(constraint, NewVersion(vnames[j])) }

\* C11 as stated: with a constraint that parses, a listed name that does not
\* parse makes getComponentVersion return the version-parse error, wherever
\* the name is in the listing.
C11_MalformedAlwaysFails ==
    (~AllParse /\ ~NewConstraintFails(constraint) /\ Selected) =>
        (pc = "done" /\ err = {"NewVersion"})

\* C11 amended: with a constraint that parses, a listed name that does not
\* parse makes getComponentVersion return the version-parse error, without
\* any LookupVersion, exactly when no name listed before it satisfies the
\* constraint; when one does, the first such name is selected and looked up
\* and the malformed name is never parsed.
C11_MalformedBeforeMatchFails ==
    (~AllParse /\ ~NewConstraintFails(constraint) /\ Selected) =>
        IF MatchingBefore(FirstBad) = {}
        THEN /\ pc = "done"
             /\ err = {"NewVersion"}
             /\ Calls(log, "LookupVersion") = 0
        ELSE /\ err # {"NewVersion"}
             /\ ver = vnames[FirstMatching]
             /\ FirstMatching < FirstBad
             /\ pc # "LookupVersion" =>
                    (Calls(log, "LookupVersion") = 1 /\ lookedUp = vnames[FirstMatching])

\* C11 witness: "v0.1.x" over [v0.1.0, v1.0.0.0] looked up v0.1.0
C11_Witness ==
    /\ vnames = << v010, vBad >>
    /\ constraint = Constraint("=", << 0, 1, X >>)
    /\ pc = "getResources"
    /\ lookedUp = v010

\* ------------------------------------------------------------------ C12
\* generateGOTKComponent has appended the image overrides to the descriptor
Generated == bcalls[1] > 0

\* the rules of the configuration whose resource name has an image coordinate
MatchedRules == { k \in 1..Len(kconfig) : kconfig[k] \in DOMAIN res.imagesResources }

\* the image name generateGOTKComponent overrides for a rule
RuleImage(rule) == << DefaultFluxHost, "/", rule >>

\* C12 as stated: the image overrides of the descriptor hold one entry per
\* rule that has an image coordinate and no entry for a rule without one.
C12_UnmatchedRuleSkipped ==
    Generated =>
        /\ Len(kus.images) = Cardinality(MatchedRules)
        /\ \A k \in 1..Len(kconfig) :
              (k \notin MatchedRules) =>
                  \A j \in 1..Len(kus.images) : kus.images[j].Name # RuleImage(kconfig[k])

\* C12 amended: the image overrides of the descriptor hold one entry per
\* rule, in the order of the rules; the entry of a rule that has an image
\* coordinate carries the name and the tag of the coordinate, the entry of a
\* rule without one carries an empty replacement name and an empty tag.
C12_OneEntryPerRule ==
    Generated =>
        /\ Len(kus.images) = Len(kconfig)
        /\ \A k \in 1..Len(kconfig) :
              /\ kus.images[k].Name = RuleImage(kconfig[k])
              /\ IF k \in MatchedRules
                 THEN /\ kus.images[k].NewName = res.imagesResources[kconfig[k]].Name
                      /\ kus.images[k].NewTag = res.imagesResources[kconfig[k]].Tag
                 ELSE /\ kus.images[k].NewName = << >>
                      /\ kus.images[k].NewTag = << >>

\* C12 witness: the rule of helm-controller has no image in the bundle and its
\* entry is empty, the entry of source-controller carries its coordinate
C12_Witness ==
    /\ Generated
    /\ bundle = << rFlux, rCfg, rImg >>
    /\ kus.images[1] = Image(RuleImage("source-controller"), << "r", "/", "n" >>, << "t" >>)
    /\ kus.images[2] = Image(RuleImage("helm-controller"), << >>, << >>)

\* ------------------------------------------------------------------ C13
\* the resources of the bundle that getResources hands to getResourceRef
ImageIdx ==
    { k \in 1..Len(bundle) :
        bundle[k].name \notin {ComponentName, "ocm-config"} /\ bundle[k].type = "ociImage" }

\* position in log of the n-th call of op
NthPos(op, n) ==
    CHOOSE k \in Positions(log, op) :
        Cardinality({ j \in Positions(log, op) : j <= k }) = n

\* getResourceRef has been called for the resource at position k and its
\* resource.Access() succeeded
AccessedOK(k) ==
    /\ k \in ImageIdx
    /\ Calls(log, "Access") >= Cardinality({ j \in ImageIdx : j <= k })
    /\ log[NthPos("Access", Cardinality({ j \in ImageIdx : j <= k }))].r = "nil"

ColonsOf(ref) == { k \in 1..Len(ref) : ref[k] = ":" }

LastColon(ref) == CHOOSE k \in ColonsOf(ref) : \A j \in ColonsOf(ref) : j <= k

\* C13: for an image reference that holds a colon, the coordinate recorded
\* under the name of the resource (as long as no later resource of that name
\* has replaced it) has as tag the text after the last colon and as name all
\* the text before it.
C13_SplitOnLastColon ==
    \A k \in 1..Len(bundle) :
        ( /\ AccessedOK(k)
          /\ bundle[k].access = "ociArtifact"
          /\ ColonsOf(bundle[k].ref) # {}
          /\ k < ri
          /\ \A j \in (k + 1)..(ri - 1) : bundle[j].name # bundle[k].name ) =>
            /\ bundle[k].name \in DOMAIN res.imagesResources
            /\ res.imagesResources[bundle[k].name] =
                   nameTag(SubSeq(bundle[k].ref, 1, LastColon(bundle[k].ref) - 1),
                           SubSeq(bundle[k].ref, LastColon(bundle[k].ref) + 1,
                                  Len(bundle[k].ref)))

\* ------------------------------------------------------------------ C14
\* C14: an image reference that does not hold exactly one colon aborts the
\* extraction with an error: once the access specification of such a resource
\* was read, Install has returned an error (it has not panicked), the loop of
\* getResources has not gone past the resource and no coordinate is recorded
\* for it.
C14_MalformedReferenceRejected ==
    \A k \in 1..Len(bundle) :
        ( /\ AccessedOK(k)
          /\ bundle[k].access = "ociArtifact"
          /\ Cardinality(ColonsOf(bundle[k].ref)) # 1 ) =>
            /\ ri = k
            /\ bundle[k].name \notin DOMAIN res.imagesResources
            /\ pc = "done"
            /\ err # Nil

\* ------------------------------------------------------------------ C15
\* Install has gone past extraction, to manifest generation
PastExtraction == pc = "generateKustomization" \/ "generateKustomization" \in Ops

\* a []byte that is nil or has length 0
Empty(bytes) == bytes \in {NilBytes, << >>}

\* C15: when Install goes past extraction both the manifest and the
\* configuration document are non-empty, and a bundle whose component
\* resource or ocm-config resource has zero-length content makes Install
\* return the resource-not-found error once extraction is over.
C15_NonEmptyPastExtraction ==
    /\ PastExtraction => (~Empty(res.componentResource) /\ ~Empty(res.ocmConfig))
    /\ ( /\ ResolveOK
         /\ ri > Len(bundle)
         /\ pc # "getResources"
         /\ (Empty(res.componentResource) \/ Empty(res.ocmConfig)) ) =>
            (pc = "done" /\ err = {"ResourceNotFound"})

\* ------------------------------------------------------------------ C16
\* C16: a Clone attempt made after the context was cancelled is the last step
\* of cloneRepository: the call returns the error with no wait, no cleanup
\* and no Clone after it.
C16_CancelAbortsClone ==
    [][(ctxDone /\ pc = "Clone" /\ pc' # "Clone") => (pc' = "reconciled" /\ err' # Nil)]_vars

\* ------------------------------------------------------------------ C17
\* position of a component in the list of declared references
DeclaredAt(comp) == CHOOSE k \in 1..Len(refs) : refs[k] = comp

\* the calls and returns of Install in the log
InstallCalls == Positions(log, "Install")

InstallReturns == Positions(log, "InstallReturn")

\* C17 as stated: the components are installed one at a time and in the
\* order of their declaration.
C17_DeclarationOrder ==
    /\ \A j, k \in InstallCalls :
          (j < k) => /\ \E m \in InstallReturns : j < m /\ m < k
                     /\ DeclaredAt(log[j].r) < DeclaredAt(log[k].r)
    /\ \A j, k \in 1..Len(visited) :
          (j < k) => DeclaredAt(visited[j]) < DeclaredAt(visited[k])

\* C17 amended: the components are installed one at a time, each declared
\* component at most once, in an order that the declaration does not fix; an
\* Install is called only when the Install called before it has returned
\* success, and a run that returns success has installed every declared
\* component once.
C17_OneAtATime ==
    /\ \A j, k \in InstallCalls :
          (j < k) => /\ \E m \in InstallReturns : j < m /\ m < k /\ log[m].r = "nil"
                     /\ log[j].r # log[k].r
    /\ \A m \in InstallReturns : m > 1 /\ log[m - 1].op = "Install"
    /\ \A k \in InstallCalls :
          /\ log[k].r \in Keys(refs)
          /\ \A m \in InstallReturns : (m < k) => log[m].r = "nil"
    /\ (pc = "Installing") <=> (log # << >> /\ Last(log).op = "Install")
    /\ (pc = "done" /\ err = Nil) =>
          /\ Cardinality(InstallCalls) = Len(refs)
          /\ Cardinality(InstallReturns) = Len(refs)
          /\ Keys(refs) = { log[k].r : k \in InstallCalls }

\* C17 witness: the component declared second was installed first, then the
\* one declared first, and Run returned success
C17_Witness ==
    /\ refs = << "flux", "ocm-controller" >>
    /\ visited = << "ocm-controller", "flux" >>
    /\ pc = "done"
    /\ err = Nil
    /\ Cardinality(InstallReturns) = 2

\* ------------------------------------------------------------------ C18
\* the calls of the commit/push cycle
CyclePositions == Positions(log, "Commit") \cup Positions(log, "Push")

\* a failure of an auxiliary reconciliation ends Install with that error
\* before any health check
AuxFailureAborts ==
    \A k \in 1..Len(log) :
        (log[k].op \in AuxOps /\ log[k].r = "err") =>
            /\ k = Len(log)
            /\ pc = "done"
            /\ err = {log[k].op}
            /\ Ops \cap HealthOps = {}

\* C18 as stated: in a successful Install run the source-secret
\* reconciliation is before the commit/push cycle and the sync-configuration
\* reconciliation after it; a failure of either ends Install with an error
\* before any health check.
C18_SecretBeforeCommit ==
    /\ (pc = "done" /\ err = Nil) =>
          \A c \in CyclePositions :
              /\ \A s \in Positions(log, "ReconcileSourceSecret") : s < c
              /\ \A y \in Positions(log, "ReconcileSyncConfig") : c < y
    /\ AuxFailureAborts

\* C18 amended: both auxiliary reconciliations are performed after the
\* commit/push cycle, once reconcileComponents has returned success: the
\* source-secret reconciliation first and, when it succeeded, the
\* sync-configuration reconciliation directly after it, each at most once;
\* a successful Install run has performed both; a failure of either ends
\* Install with an error before any health check.
C18_AuxAfterReconcile ==
    /\ \A k \in 1..Len(log) :
          (log[k].op \in AuxOps) =>
              /\ \A c \in CyclePositions : c < k
              /\ \E m \in 1..(k - 1) : log[m] = Ev("return", "nil")
              /\ Ev("return", "err") \notin Events
    /\ \A k \in Positions(log, "ReconcileSourceSecret") :
          k > 1 /\ log[k - 1] = Ev("return", "nil")
    /\ \A k \in Positions(log, "ReconcileSyncConfig") :
          k > 1 /\ log[k - 1] = Ev("ReconcileSourceSecret", "nil")
    /\ Calls(log, "ReconcileSourceSecret") <= 1
    /\ Calls(log, "ReconcileSyncConfig") <= 1
    /\ (pc = "done" /\ err = Nil) =>
          /\ Ev("ReconcileSourceSecret", "nil") \in Events
          /\ Ev("ReconcileSyncConfig", "nil") \in Events
    /\ AuxFailureAborts

\* C18 witness: a successful run that pushed and reconciled the source secret
\* after the Push
C18_Witness ==
    /\ pc = "done"
    /\ err = Nil
    /\ \E c \in Positions(log, "Push") :
          \E s \in Positions(log, "ReconcileSourceSecret") :
              /\ log[c].r = "nil"
              /\ c < s
              /\ log[s + 1] = Ev("ReconcileSyncConfig", "nil")

\* ------------------------------------------------------------------ C19
\* the commit/push phase of the n-th call has succeeded
CyclePassed(n) ==
    \E k \in Seg(n) :
        \/ log[k] = Ev("Commit", "ErrNoStagedFiles")
        \/ log[k] = Ev("Commit", "nil") /\ k < SegEnd(n) /\ log[k + 1] = Ev("Push", "nil")

ApplyCalls == {"ApplyKustomization", "ApplyManifest"}

\* C19: a call of reconcileComponents makes at most one cluster query and at
\* most one apply; the apply directly follows a query that reported no sync
\* object, after the commit/push phase succeeded; it applies the
\* kustomization file when there is one next to the manifest and the manifest
\* otherwise; the call returns an error when the apply fails and success when
\* it succeeds; when the query reports a sync object the call returns success
\* without any apply.
C19_ApplyOnlyWithoutSyncObject ==
    \A n \in 1..Len(given) :
        /\ OpsIn(n, "ApplyKustomization") + OpsIn(n, "ApplyManifest") <= 1
        /\ OpsIn(n, "MustInstallKustomization") <= 1
        /\ \A k \in Seg(n) :
              /\ (log[k].op \in ApplyCalls) =>
                    /\ log[k - 1] = Ev("MustInstallKustomization", "true")
                    /\ CyclePassed(n)
                    /\ (log[k].op = "ApplyKustomization") <=> (wt["target-kustomization"] # Absent)
                    /\ k < Len(log)
                    /\ log[k + 1] = Ev("return", log[k].r)
                    /\ (n = Len(given) /\ pc = "reconciled") => ((err = Nil) <=> (log[k].r = "nil"))
              /\ (log[k].op = "MustInstallKustomization") => CyclePassed(n)
              /\ (log[k] = Ev("MustInstallKustomization", "true")) =>
                    IF k = Len(log) THEN pc = "Apply" ELSE log[k + 1].op \in ApplyCalls
              /\ (log[k] = Ev("MustInstallKustomization", "false")) =>
                    /\ k < Len(log)
                    /\ log[k + 1] = Ev("return", "nil")
                    /\ \A j \in Seg(n) : log[j].op \notin ApplyCalls

\* C19 witness: a call found no sync object, applied the kustomization file
\* that the clone brought next to the manifest, and failed with the apply
C19_Witness ==
    /\ pc = "reconciled"
    /\ err = {"Apply"}
    /\ wt["target-kustomization"] # Absent
    /\ log[Len(log) - 1] = Ev("ApplyKustomization", "err")
    /\ log[Len(log) - 2] = Ev("MustInstallKustomization", "true")

\* ------------------------------------------------------------------ C20
\* the failures that the external calls of the run have reported
ReportedFailures == { k \in 1..Len(log) : log[k].op # "return" /\ log[k].r = "err" }

\* C20: an Install run in which an external call reported a failure (the
\* nothing-to-commit result of Commit is not one) returns an error.
C20_NoSwallowedError ==
    (pc = "done" /\ ReportedFailures # {}) => err # Nil

\* ------------------------------------------------------------------ C21
\* the loop of getResources has gone through the whole bundle
Extracted == ri > Len(bundle)

\* the image-type resources of the bundle
ImageTyped == { k \in 1..Len(bundle) : bundle[k].type = "ociImage" }

\* the n-th resource that getResources handles as an image
NthImage(n) == CHOOSE k \in ImageIdx : Cardinality({ j \in ImageIdx : j <= k }) = n

\* the last resource of the bundle that is handled as an image under a name
LastNamed(name) ==
    CHOOSE k \in ImageIdx :
        /\ bundle[k].name = name
        /\ \A j \in ImageIdx : (bundle[j].name = name) => j <= k

\* C21 as stated: after getResources the coordinate map has as many entries
\* as the bundle has image-type resources, and the list of component names
\* holds exactly the keys of the map, each once.
C21_OneCoordinatePerImage ==
    Extracted =>
        /\ Cardinality(DOMAIN res.imagesResources) = Cardinality(ImageTyped)
        /\ Len(res.compomentsList) = Cardinality(DOMAIN res.imagesResources)
        /\ { res.compomentsList[n] : n \in 1..Len(res.compomentsList) } =
               DOMAIN res.imagesResources

\* C21 amended: after getResources the coordinate map has one entry per
\* distinct name of the image-type resources that are not named like the
\* component or ocm-config, holding the coordinate of the last resource of
\* that name; the list of component names has one entry per such resource,
\* in bundle order, so a name carried by several resources is in it several
\* times.
C21_OneCoordinatePerName ==
    Extracted =>
        /\ DOMAIN res.imagesResources = { bundle[k].name : k \in ImageIdx }
        /\ DOMAIN res.imagesResources \cap {ComponentName, "ocm-config"} = {}
        /\ Len(res.compomentsList) = Cardinality(ImageIdx)
        /\ \A n \in 1..Len(res.compomentsList) :
              res.compomentsList[n] = bundle[NthImage(n)].name
        /\ \A name \in DOMAIN res.imagesResources :
              LET r == getResourceRef(bundle[LastNamed(name)], AccessedOK(LastNamed(name)))
              IN  res.imagesResources[name] = nameTag(r.name, r.version)

\* C21 witness: two image resources named source-controller gave one
\* coordinate, that of the second, and two entries of the list
C21_Witness ==
    /\ Extracted
    /\ bundle = << rFlux, rCfg, rOther, rImg, rImgDup >>
    /\ res.compomentsList = << "source-controller", "source-controller" >>
    /\ DOMAIN res.imagesResources = {"source-controller"}
    /\ res.imagesResources["source-controller"] = nameTag(<< "r", "/", "n" >>, << "u" >>)

\* ------------------------------------------------------------------ C22
\* the failures that belong to the clone phase
CloneErrors == {"Clone", "ReadDir", "RemoveAll"}

\* position k holds a failed attempt (cleanup or Clone) of the n-th call
FailedAttemptAt(n, k) ==
    /\ k \in Seg(n)
    /\ log[k].op \in {"cleanGitRepoDir", "Clone"}
    /\ log[k].r = "err"

\* C22: a first attempt that fails is followed by the wait and the second
\* attempt; a Clone that succeeds, on the first attempt or on the retry,
\* leaves the opened repository at the tree of the remote branch and is
\* followed by Commit; a call in which a Clone succeeded never returns a
\* failure of the clone phase, and returns success when no later call fails.
C22_RetrySuccessContinues ==
    \A n \in 1..Len(given) :
        /\ \A k \in Seg(n) :
              (FailedAttemptAt(n, k) /\ OpsIn(n, "Sleep") = 0) => (k = Len(log) /\ pc = "Sleep")
        /\ \A k \in Seg(n) :
              (log[k] = Ev("Clone", "nil")) =>
                  /\ IF k = Len(log)
                     THEN /\ pc = "Commit"
                          /\ repoOpen
                          /\ wt = remote
                          /\ head = remote
                          /\ ~residue
                     ELSE log[k + 1].op = "Commit"
                  /\ (n = Len(given) /\ pc = "reconciled") => err \cap CloneErrors = {}
                  /\ (Returned(n) /\ \A j \in Seg(n) : (j > k /\ log[j].op # "return") => log[j].r # "err")
                        => ReturnOf(n) = "nil"

\* C22 witness: the first Clone of a call failed, the retry succeeded and the
\* call returned success
C22_Witness ==
    /\ pc = "reconciled"
    /\ err = Nil
    /\ \E k \in Seg(Len(given)) :
          /\ log[k] = Ev("Clone", "err")
          /\ log[k + 1].op = "Sleep"
          /\ log[k + 2] = Ev("cleanGitRepoDir", "nil")
          /\ log[k + 3] = Ev("Clone", "nil")
          /\ log[k + 4].op = "Commit"

\* ------------------------------------------------------------------ C23
\* the steps of Install that are made at most once in a run
OnceOps ==
    {"LookupComponent", "ListVersions", "LookupVersion", "generateKustomization",
     "reconcileComponents", "Head", "Commit", "Push", "MustInstallKustomization", "return"}
    \cup AuxOps \cup HealthOps

\* no step of the run is repeated but the clone attempt, which retry makes at
\* most Retries + 1 times and never again after one that succeeded; the
\* resources are read once each, the build is called once
BoundedCalls ==
    /\ \A op \in OnceOps : Calls(log, op) <= 1
    /\ Calls(log, "ApplyKustomization") + Calls(log, "ApplyManifest") <= 1
    /\ Calls(log, "getResourceContent") + Calls(log, "Access") <= Len(bundle)
    /\ bcalls[1] <= 1
    /\ Calls(log, "cleanGitRepoDir") <= Retries + 1
    /\ Calls(log, "Clone") <= Calls(log, "cleanGitRepoDir")
    /\ Calls(log, "Sleep") <= Retries
    /\ \A k \in Positions(log, "Clone") :
          (log[k].r = "nil") =>
              \A j \in (k + 1)..Len(log) : log[j].op \notin {"cleanGitRepoDir", "Clone", "Sleep"}
    /\ Len(log) <= Len(bundle) + 17 + 3 * Retries

C24_LockReleased ==
    /\ \A p \in Procs : (mu = p) <=> (bpc[p] \in {"Build", "Unlock"})
    /\ \A p \in Procs : (bpc[p] = "returned") => (mu # p)
    /\ (\A p \in Procs : bpc[p] \notin {"Build", "Unlock"}) => (mu = 0)

\* C24 witness: a caller whose first call failed in the build holds the mutex
\* again in its second call
C24_Witness ==
    /\ bcalls[1] = 2
    /\ bpc[1] = "Build"
    /\ mu = 1
    /\ berr[1] \in {{"Build"}, {"AsYaml"}}

\* ------------------------------------------------------------------ C25
\* C25: every Clone directly follows a cleanup of the same attempt that
\* succeeded, and is made on a directory without any entry; after a cleanup
\* that failed no Clone is made in that attempt: the attempt has failed, and
\* retry waits for the next attempt or returns the error.
C25_CloneOnCleanDirectory ==
    /\ (pc = "Clone") =>
          /\ Last(log) = Ev("cleanGitRepoDir", "nil")
          /\ Entries = {}
          /\ ~residue
    /\ \A k \in Positions(log, "Clone") : log[k - 1] = Ev("cleanGitRepoDir", "nil")
    /\ \A k \in Positions(log, "cleanGitRepoDir") :
          /\ (log[k].r = "nil") =>
                IF k = Len(log) THEN pc = "Clone" ELSE log[k + 1].op = "Clone"
          /\ (log[k].r = "err") =>
                IF k = Len(log) THEN pc = "Sleep"
                ELSE \/ log[k + 1].op = "Sleep"
                     \/ log[k + 1] = Ev("return", "err")

\* C25 witness: the retry is about to Clone, after a first Clone that failed,
\* the wait and a cleanup that succeeded
C25_Witness ==
    /\ pc = "Clone"
    /\ Len(log) >= 3
    /\ Last(log) = Ev("cleanGitRepoDir", "nil")
    /\ log[Len(log) - 1].op = "Sleep"
    /\ log[Len(log) - 2] = Ev("Clone", "err")

\* ------------------------------------------------------------------ C26
\* the calls of Run that belong to the installation of a component
ComponentOps == {"mkdirTempDir", "NewInstall", "Install", "InstallReturn", "InstallPanic"}

\* C26: reconcileRepository calls Reconcile, which creates the management
\* repository, only right after a Get that reported not-found; after a Get
\* that succeeded no Reconcile is called; a Get that failed with any other
\* error is the last call of the run, which then reports that failure; and
\* Run takes no component and calls nothing of an installation unless the
\* repository was found or created and the clone-URL lookup succeeded.
C26_CreateOnlyWhenNotFound ==
    /\ \A k \in Positions(log, "Reconcile") :
          k > 1 /\ log[k - 1] = Ev("Get", "ErrNotFound")
    /\ (Ev("Get", "nil") \in Events) => (Positions(log, "Reconcile") = {})
    /\ (Ev("Get", "err") \in Events) =>
          /\ Last(log) = Ev("Get", "err")
          /\ pc \in {"deferred", "done"}
          /\ err = {"Get"}
    /\ (Ev("Reconcile", "err") \in Events) =>
          /\ Last(log) = Ev("Reconcile", "err")
          /\ pc \in {"deferred", "done"}
          /\ err = {"Reconcile"}
    /\ (visited # << >> \/ \E k \in 1..Len(log) : log[k].op \in ComponentOps) =>
          /\ Ev("getCloneURL", "nil") \in Events
          /\ Ev("Get", "nil") \in Events \/ Ev("Reconcile", "nil") \in Events

\* C26 witness: the repository did not exist, was created, and Run installed
\* a component and returned success
C26_Witness ==
    /\ pc = "done"
    /\ err = Nil
    /\ Ev("Get", "ErrNotFound") \in Events
    /\ Ev("Reconcile", "nil") \in Events
    /\ InstallCalls # {}

\* ------------------------------------------------------------------ C27
\* Run is over: it returned, or the panic of an Install left it
RunOver == pc \in {"done", "panic"}

\* the directories that mkdirTempDir returned to Run
Obtained == { k \in 1..Len(dirs) : dirs[k] # "leaked" }

\* no deferred call has run while Run is at a component
NoneRemovedEarly ==
    (pc \notin {"deferred", "done", "panic"}) =>
        \A k \in Obtained : dirs[k] = "obtained"

====
